---- MODULE Spec2Model ----
(***************************************************************************)
(* Model of SimulatoreProduzioneZioPeppe                                   *)
(* (src/project_work_settore_primario.py).                                 *)
(*                                                                         *)
(* Numbers.  The program computes with Python ints and floats.  Here       *)
(*   - quantities and daily capacities are integers (kg),                  *)
(*   - tempo_per_kg is an integer number of thousandths of an hour         *)
(*     (0.15 h/kg is 150),                                                 *)
(*   - every value the program passes through round(x, 2) is an integer    *)
(*     number of hundredths (97.5 h is 9750).                              *)
(* The per-unit times the model draws are either whole hundredths (the     *)
(* defaults, 0.18) or 0.125, which is exact in binary, so that Python's    *)
(* round(quantita * tempo_per_kg, 2) is round-half-to-even of the exact    *)
(* product for every input of the model.                                   *)
(* The two report fields that are rounded float quotients                  *)
(* (tempo_lavorazione_giorni, ore_medie_giorno) and the time stamp         *)
(* (data_simulazione) are not represented: their value at a decimal tie    *)
(* depends on the binary expansion of the quotient.                        *)
(* An exception that leaves a method is the record                         *)
(* [tipo |-> "errore", errore |-> <exception class>].                      *)
(***************************************************************************)
EXTENDS Integers, Sequences, FiniteSets, TLC

VARIABLES prodotti, sequenze, quantita_produzione, capacita_complessiva,
          chiamata, risultato, passi

vars == <<prodotti, sequenze, quantita_produzione, capacita_complessiva,
          chiamata, risultato, passi>>

(* ------------------------------ bounds --------------------------------- *)

\* Quantities range over 0..MaxQty.
MaxQty == 3

\* Number of state-changing calls (configura_*, genera_quantita_casuali,
\* a write of the caller into the quantity table) in one session.
MaxPassi == 2

(* ------------------------- program constants --------------------------- *)

OreGiornata == 8

ChiaviProdotti == {"carne_bovina", "carne_suina", "salumi", "formaggi"}

\* A key that is not a product of the configuration.
ChiaveIgnota == "latte"

\* The keys a caller passes: the first member of one sequence, the second
\* member of the other, and the key that is no product.  The other two
\* products keep their default configuration and get a quantity only from
\* genera_quantita_casuali.
Chiavi == {"carne_bovina", "formaggi", ChiaveIgnota}

ProdottiIniziali ==
    [p \in ChiaviProdotti |->
        CASE p = "carne_bovina" ->
               [nome |-> "Carne Bovina", tempo_per_kg |-> 150,
                capacita_giornaliera |-> 500, unita_misura |-> "kg"]
          [] p = "carne_suina" ->
               [nome |-> "Carne Suina", tempo_per_kg |-> 120,
                capacita_giornaliera |-> 400, unita_misura |-> "kg"]
          [] p = "salumi" ->
               [nome |-> "Salumi", tempo_per_kg |-> 250,
                capacita_giornaliera |-> 200, unita_misura |-> "kg"]
          [] p = "formaggi" ->
               [nome |-> "Formaggi", tempo_per_kg |-> 200,
                capacita_giornaliera |-> 150, unita_misura |-> "kg"]]

\* Iteration order of the dict self.sequenze.
OrdineSequenze == <<"sequenza_macellazione", "sequenza_trasformazione">>

SequenzeIniziali ==
    [s \in {"sequenza_macellazione", "sequenza_trasformazione"} |->
        IF s = "sequenza_macellazione"
        THEN <<"carne_bovina", "carne_suina">>
        ELSE <<"salumi", "formaggi">>]

NomeIgnoto == "sequenza_ignota"

(* --------------------------- input domains ----------------------------- *)

Quantita == 0..MaxQty

\* Arguments (min_qty, max_qty) of genera_quantita_casuali: a range of one
\* value (randint returns it) or of two consecutive values.
GammeQuantita ==
    {<<q, q>> : q \in Quantita} \cup {<<q - 1, q>> : q \in Quantita \ {0}}

\* Per-unit times a caller configures (thousandths of an hour): 0.125, 0.18.
TempiConfigurabili == {125, 180}

\* Daily capacities a caller configures; the method accepts any value.
CapacitaConfigurabili == {-2, 0, 1, 2}

CapacitaTotali == {1000}

NonImpostata == "non_impostata"

(* --------------------------- arithmetic -------------------------------- *)

Abs(n) == IF n < 0 THEN -n ELSE n

\* int(n / d) for d # 0: the quotient truncated toward zero.
PyInt(n, d) ==
    LET m == Abs(n) \div Abs(d)
    IN  IF (n < 0) = (d < 0) THEN m ELSE -m

\* floor(n / d) for d # 0.
PyFloor(n, d) ==
    LET t == PyInt(n, d)
    IN  IF t * d # n /\ ((n < 0) # (d < 0)) THEN t - 1 ELSE t

\* Python's n % d for d # 0: the remainder has the sign of the divisor.
PyMod(n, d) == n - d * PyFloor(n, d)

\* round(n / d) to the nearest integer, ties to the even one; n >= 0, d > 0.
RoundHalfEven(n, d) ==
    LET f == n \div d
        r == n % d
    IN  IF 2 * r < d THEN f
        ELSE IF 2 * r > d THEN f + 1
        ELSE IF f % 2 = 0 THEN f ELSE f + 1

\* Faulty variant: the product is rounded to one decimal instead of two.
TempoLavorazioneOreUnDecimale(quantita, tempo_per_kg) ==
    RoundHalfEven(quantita * tempo_per_kg, 100) * 10

\* round(quantita * tempo_per_kg, 2) in hundredths of an hour.
TempoLavorazioneOre(quantita, tempo_per_kg) ==
    RoundHalfEven(quantita * tempo_per_kg, 10)

\* Faulty variant: the day of the remainder is not added.
GiorniEffettiviTroncati(quantita, capacita_giornaliera) ==
    IF quantita > capacita_giornaliera
    THEN PyInt(quantita, capacita_giornaliera)
    ELSE 1

GiorniEffettivi(quantita, capacita_giornaliera) ==
    IF quantita > capacita_giornaliera
    THEN PyInt(quantita, capacita_giornaliera)
         + (IF PyMod(quantita, capacita_giornaliera) > 0 THEN 1 ELSE 0)
    ELSE 1

Max(a, b) == IF a >= b THEN a ELSE b

\* The value None.
Nessuno == [tipo |-> "None"]

Errore(e) == [tipo |-> "errore", errore |-> e]

(* ---------------------- calcola_tempo_produzione ----------------------- *)

calcola_tempo_produzione(prod, prodotto, quantita) ==
    IF prodotto \notin DOMAIN prod THEN Errore("KeyError")
    ELSE LET info_prodotto == prod[prodotto]
             tempo_per_unita == info_prodotto.tempo_per_kg
             capacita_giornaliera == info_prodotto.capacita_giornaliera
         IN  IF capacita_giornaliera = 0 THEN Errore("ZeroDivisionError")
             ELSE LET giorni_effettivi ==
                          GiorniEffettivi(quantita, capacita_giornaliera)
                  IN  [tipo |-> "stima",
                       prodotto |-> info_prodotto.nome,
                       quantita |-> quantita,
                       tempo_lavorazione_ore |->
                           TempoLavorazioneOre(quantita, tempo_per_unita),
                       giorni_effettivi |-> giorni_effettivi,
                       tempo_totale_ore |-> giorni_effettivi * OreGiornata * 100]

(* --------------------- simula_sequenza_produttiva ---------------------- *)

\* Faulty variant: a member without a quantity is estimated for the quantity 0
\* instead of being skipped.
RECURSIVE CicloSequenzaZero(_, _, _, _, _, _, _)
CicloSequenzaZero(prod, qta, membri, i, risultati, tempo_totale_ore, tempo_totale_giorni) ==
    IF i > Len(membri)
    THEN [tipo |-> "sequenza",
          dettagli_prodotti |-> risultati,
          tempo_totale_ore |-> tempo_totale_ore,
          giorni_totali |-> tempo_totale_giorni]
    ELSE LET prodotto == membri[i]
             quantita == IF prodotto \in DOMAIN qta THEN qta[prodotto] ELSE 0
             ris == calcola_tempo_produzione(prod, prodotto, quantita)
         IN  IF ris.tipo = "errore" THEN ris
             ELSE CicloSequenzaZero(prod, qta, membri, i + 1,
                      Append(risultati, ris),
                      tempo_totale_ore + ris.tempo_lavorazione_ore,
                      Max(tempo_totale_giorni, ris.giorni_effettivi))

\* Faulty variant: the total accumulates the available hours of the entry
\* (tempo_totale_ore) instead of its processing hours.
RECURSIVE CicloSequenzaOreDisponibili(_, _, _, _, _, _, _)
CicloSequenzaOreDisponibili(prod, qta, membri, i, risultati, tempo_totale_ore, tempo_totale_giorni) ==
    IF i > Len(membri)
    THEN [tipo |-> "sequenza",
          dettagli_prodotti |-> risultati,
          tempo_totale_ore |-> tempo_totale_ore,
          giorni_totali |-> tempo_totale_giorni]
    ELSE LET prodotto == membri[i]
         IN  IF prodotto \notin DOMAIN qta
             THEN CicloSequenzaOreDisponibili(prod, qta, membri, i + 1, risultati,
                      tempo_totale_ore, tempo_totale_giorni)
             ELSE LET ris == calcola_tempo_produzione(prod, prodotto, qta[prodotto])
                  IN  IF ris.tipo = "errore" THEN ris
                      ELSE CicloSequenzaOreDisponibili(prod, qta, membri, i + 1,
                               Append(risultati, ris),
                               tempo_totale_ore + ris.tempo_totale_ore,
                               Max(tempo_totale_giorni, ris.giorni_effettivi))

\* The loop of simula_sequenza_produttiva from member i on, with the
\* accumulators of the code.
RECURSIVE CicloSequenza(_, _, _, _, _, _, _)
CicloSequenza(prod, qta, membri, i, risultati, tempo_totale_ore, tempo_totale_giorni) ==
    IF i > Len(membri)
    THEN [tipo |-> "sequenza",
          dettagli_prodotti |-> risultati,
          tempo_totale_ore |-> tempo_totale_ore,
          giorni_totali |-> tempo_totale_giorni]
    ELSE LET prodotto == membri[i]
         IN  IF prodotto \notin DOMAIN qta
             THEN CicloSequenza(prod, qta, membri, i + 1, risultati,
                                tempo_totale_ore, tempo_totale_giorni)
             ELSE LET ris == calcola_tempo_produzione(prod, prodotto, qta[prodotto])
                  IN  IF ris.tipo = "errore" THEN ris
                      ELSE CicloSequenza(prod, qta, membri, i + 1,
                               Append(risultati, ris),
                               tempo_totale_ore + ris.tempo_lavorazione_ore,
                               Max(tempo_totale_giorni, ris.giorni_effettivi))

\* Faulty variant: the day count starts at 1 instead of 0.
simula_giorni_da_uno(prod, seqs, qta, nome_sequenza) ==
    IF nome_sequenza \notin DOMAIN seqs THEN Nessuno
    ELSE LET r == CicloSequenza(prod, qta, seqs[nome_sequenza], 1, <<>>, 0, 1)
         IN  IF r.tipo = "errore" THEN r
             ELSE [tipo |-> "sequenza",
                   sequenza |-> nome_sequenza,
                   dettagli_prodotti |-> r.dettagli_prodotti,
                   tempo_totale_ore |-> r.tempo_totale_ore,
                   giorni_totali |-> r.giorni_totali]

simula_sequenza_produttiva(prod, seqs, qta, nome_sequenza) ==
    IF nome_sequenza \notin DOMAIN seqs THEN Nessuno
    ELSE LET r == CicloSequenza(prod, qta, seqs[nome_sequenza], 1, <<>>, 0, 0)
         IN  IF r.tipo = "errore" THEN r
             ELSE [tipo |-> "sequenza",
                   sequenza |-> nome_sequenza,
                   dettagli_prodotti |-> r.dettagli_prodotti,
                   tempo_totale_ore |-> r.tempo_totale_ore,
                   giorni_totali |-> r.giorni_totali]

(* -------------------- rapporto_produzione_completo --------------------- *)

\* Faulty variant: only the quantities of the products that belong to a sequence
\* are summed.
RECURSIVE SommaValoriDiSequenza(_)
SommaValoriDiSequenza(f) ==
    IF DOMAIN f = {} THEN 0
    ELSE LET k == CHOOSE x \in DOMAIN f : TRUE
         IN  (IF k \in ChiaviProdotti THEN f[k] ELSE 0)
             + SommaValoriDiSequenza([y \in DOMAIN f \ {k} |-> f[y]])

\* sum(self.quantita_produzione.values())
RECURSIVE SommaValori(_)
SommaValori(f) ==
    IF DOMAIN f = {} THEN 0
    ELSE LET k == CHOOSE x \in DOMAIN f : TRUE
         IN  f[k] + SommaValori([y \in DOMAIN f \ {k} |-> f[y]])

\* The results of the sequences in iteration order, or the first exception.
RECURSIVE CicloRapporto(_, _, _, _, _)
CicloRapporto(prod, seqs, qta, i, fatti) ==
    IF i > Len(OrdineSequenze) THEN [tipo |-> "ok", sequenze |-> fatti]
    ELSE LET r == simula_sequenza_produttiva(prod, seqs, qta, OrdineSequenze[i])
         IN  IF r.tipo = "errore" THEN r
             ELSE CicloRapporto(prod, seqs, qta, i + 1, Append(fatti, r))

RECURSIVE SommaOre(_, _)
SommaOre(rs, i) ==
    IF i > Len(rs) THEN 0
    ELSE (IF rs[i].tipo = "sequenza" THEN rs[i].tempo_totale_ore ELSE 0)
         + SommaOre(rs, i + 1)

\* max() over the sequences that are not None; rs has at least one.
RECURSIVE MaxGiorni(_, _)
MaxGiorni(rs, i) ==
    IF i = Len(rs) THEN rs[i].giorni_totali
    ELSE Max(rs[i].giorni_totali, MaxGiorni(rs, i + 1))

rapporto_produzione_completo(prod, seqs, qta) ==
    LET c == CicloRapporto(prod, seqs, qta, 1, <<>>)
    IN  IF c.tipo = "errore" THEN c
        ELSE [tipo |-> "rapporto",
              quantita_produzione |-> qta,
              sequenze |->
                  [n \in {OrdineSequenze[i] : i \in 1..Len(OrdineSequenze)} |->
                      c.sequenze[CHOOSE i \in 1..Len(OrdineSequenze) :
                                     OrdineSequenze[i] = n]],
              totali_generali |->
                  [tempo_totale_ore |-> SommaOre(c.sequenze, 1),
                   giorni_totali |-> MaxGiorni(c.sequenze, 1),
                   quantita_totale_kg |-> SommaValori(qta)]]

(* ------------------------------ state ---------------------------------- *)

Chiamata(op, chiave, v1, v2) ==
    [op |-> op, chiave |-> chiave, v1 |-> v1, v2 |-> v2]

Init ==
    /\ prodotti = ProdottiIniziali
    /\ sequenze = SequenzeIniziali
    /\ quantita_produzione = << >>
    /\ capacita_complessiva = NonImpostata
    /\ chiamata = Chiamata("__init__", "", 0, 0)
    /\ risultato = Nessuno
    /\ passi = 0

\* genera_quantita_casuali(min_qty, max_qty): every product of the
\* configuration draws randint(min_qty, max_qty); other keys of the table
\* are kept.  The method returns the table.
GeneraQuantitaCasuali ==
    /\ passi < MaxPassi
    /\ \E g \in GammeQuantita :
       \E min_qty \in {g[1]} :
       \E max_qty \in {g[2]} :
       \E estratte \in [ChiaviProdotti -> min_qty..max_qty] :
          /\ quantita_produzione' =
                [k \in DOMAIN quantita_produzione \cup ChiaviProdotti |->
                    IF k \in ChiaviProdotti THEN estratte[k]
                    ELSE quantita_produzione[k]]
          /\ chiamata' = Chiamata("genera_quantita_casuali", "", min_qty, max_qty)
          /\ risultato' = [tipo |-> "quantita", quantita |-> quantita_produzione']
    /\ passi' = passi + 1
    /\ UNCHANGED <<prodotti, sequenze, capacita_complessiva>>

\* The caller (the quantity source) writes one entry of the public table
\* quantita_produzione.
ImpostaQuantita ==
    /\ passi < MaxPassi
    /\ \E k \in Chiavi, q \in Quantita :
          /\ quantita_produzione' =
                [x \in DOMAIN quantita_produzione \cup {k} |->
                    IF x = k THEN q ELSE quantita_produzione[x]]
          /\ chiamata' = Chiamata("imposta_quantita", k, q, 0)
    /\ risultato' = Nessuno
    /\ passi' = passi + 1
    /\ UNCHANGED <<prodotti, sequenze, capacita_complessiva>>

AggiornaTempo(prod, prodotto, tempo_per_unita) ==
    IF prodotto \in DOMAIN prod
    THEN [prod EXCEPT ![prodotto].tempo_per_kg = tempo_per_unita]
    ELSE prod

ConfiguraTempoProduzione ==
    /\ passi < MaxPassi
    /\ \E prodotto \in Chiavi, tempo_per_unita \in TempiConfigurabili :
          /\ prodotti' = AggiornaTempo(prodotti, prodotto, tempo_per_unita)
          /\ chiamata' = Chiamata("configura_tempo_produzione", prodotto,
                                  tempo_per_unita, 0)
    /\ risultato' = Nessuno
    /\ passi' = passi + 1
    /\ UNCHANGED <<sequenze, quantita_produzione, capacita_complessiva>>

\* Faulty variant: the capacity is written into the field tempo_per_kg.
AggiornaCapacitaCampoErrato(prod, prodotto, capacita) ==
    IF prodotto \in DOMAIN prod
    THEN [prod EXCEPT ![prodotto].tempo_per_kg = capacita]
    ELSE prod

AggiornaCapacita(prod, prodotto, capacita) ==
    IF prodotto \in DOMAIN prod
    THEN [prod EXCEPT ![prodotto].capacita_giornaliera = capacita]
    ELSE prod

ConfiguraCapacitaGiornaliera ==
    /\ passi < MaxPassi
    /\ \E prodotto \in Chiavi, capacita \in CapacitaConfigurabili :
          /\ prodotti' = AggiornaCapacita(prodotti, prodotto, capacita)
          /\ chiamata' = Chiamata("configura_capacita_giornaliera", prodotto,
                                  capacita, 0)
    /\ risultato' = Nessuno
    /\ passi' = passi + 1
    /\ UNCHANGED <<sequenze, quantita_produzione, capacita_complessiva>>

ConfiguraCapacitaComplessiva ==
    /\ passi < MaxPassi
    /\ \E capacita_totale \in CapacitaTotali :
          /\ capacita_complessiva' = capacita_totale
          /\ chiamata' = Chiamata("configura_capacita_complessiva", "",
                                  capacita_totale, 0)
    /\ risultato' = Nessuno
    /\ passi' = passi + 1
    /\ UNCHANGED <<prodotti, sequenze, quantita_produzione>>

CalcolaTempoProduzione ==
    /\ \E prodotto \in Chiavi, quantita \in Quantita :
          /\ chiamata' = Chiamata("calcola_tempo_produzione", prodotto, quantita, 0)
          /\ risultato' = calcola_tempo_produzione(prodotti, prodotto, quantita)
    /\ UNCHANGED <<prodotti, sequenze, quantita_produzione,
                   capacita_complessiva, passi>>

SimulaSequenzaProduttiva ==
    /\ \E nome_sequenza \in DOMAIN sequenze \cup {NomeIgnoto} :
          /\ chiamata' = Chiamata("simula_sequenza_produttiva", nome_sequenza, 0, 0)
          /\ risultato' = simula_sequenza_produttiva(prodotti, sequenze,
                              quantita_produzione, nome_sequenza)
    /\ UNCHANGED <<prodotti, sequenze, quantita_produzione,
                   capacita_complessiva, passi>>

RapportoProduzioneCompleto ==
    /\ chiamata' = Chiamata("rapporto_produzione_completo", "", 0, 0)
    /\ risultato' = rapporto_produzione_completo(prodotti, sequenze,
                        quantita_produzione)
    /\ UNCHANGED <<prodotti, sequenze, quantita_produzione,
                   capacita_complessiva, passi>>

Next ==
    \/ GeneraQuantitaCasuali
    \/ ImpostaQuantita
    \/ ConfiguraTempoProduzione
    \/ ConfiguraCapacitaGiornaliera
    \/ ConfiguraCapacitaComplessiva
    \/ CalcolaTempoProduzione
    \/ SimulaSequenzaProduttiva
    \/ RapportoProduzioneCompleto

Spec == Init /\ [][Next]_vars

TypeOK ==
    /\ DOMAIN prodotti = ChiaviProdotti
    /\ DOMAIN quantita_produzione \subseteq ChiaviProdotti \cup Chiavi
    /\ passi \in 0..MaxPassi

(* ============================== claims ================================= *)

EStima == chiamata.op = "calcola_tempo_produzione"
ESimula == chiamata.op = "simula_sequenza_produttiva"
ERapporto == chiamata.op = "rapporto_produzione_completo"

\* The least n >= 1 with n * c >= q, for c > 0 and q >= 1.
Ceil(q, c) == CHOOSE n \in 1..q : n * c >= q /\ (n - 1) * c < q

RECURSIVE SommaCampo(_, _)
SommaCampo(rs, campo) ==
    IF rs = <<>> THEN 0
    ELSE Head(rs)[campo] + SommaCampo(Tail(rs), campo)

GiorniDi(rs) == {rs[i].giorni_effettivi : i \in 1..Len(rs)}

Massimo(S) == CHOOSE x \in S : \A y \in S : y <= x

\* The members of a sequence that have a quantity, in sequence order.
MembriRisolti(nome) ==
    SelectSeq(sequenze[nome], LAMBDA m : m \in DOMAIN quantita_produzione)

\* C1: with daily_capacity > 0 and q >= 0, calcola_tempo_produzione returns
\* giorni_effettivi = 1 when q <= daily_capacity and
\* giorni_effettivi = ceil(q / daily_capacity) >= 2 when q > daily_capacity,
\* so that giorni_effettivi * daily_capacity >= q.
C1_GiorniEffettivi ==
    (/\ EStima
     /\ chiamata.chiave \in DOMAIN prodotti
     /\ prodotti[chiamata.chiave].capacita_giornaliera > 0)
    => LET c == prodotti[chiamata.chiave].capacita_giornaliera
           q == chiamata.v1
       IN  /\ risultato.tipo = "stima"
           /\ q <= c => risultato.giorni_effettivi = 1
           /\ q > c => /\ risultato.giorni_effettivi = Ceil(q, c)
                       /\ risultato.giorni_effettivi >= 2
           /\ risultato.giorni_effettivi * c >= q

\* An estimate of a quantity above a positive capacity that is no multiple
\* of it.
C1_Witness ==
    /\ EStima
    /\ chiamata.chiave \in DOMAIN prodotti
    /\ prodotti[chiamata.chiave].capacita_giornaliera > 0
    /\ chiamata.v1 > prodotti[chiamata.chiave].capacita_giornaliera
    /\ chiamata.v1 % prodotti[chiamata.chiave].capacita_giornaliera # 0
    /\ risultato.tipo = "stima"
    /\ risultato.giorni_effettivi = 2

\* C2: for a sequence with at least one member that has a quantity,
\* giorni_totali is the maximum giorni_effettivi of the entries of
\* dettagli_prodotti, and with two or more entries it is not their sum.
C2_GiorniTotaliMassimo ==
    (ESimula /\ risultato.tipo = "sequenza"
             /\ Len(risultato.dettagli_prodotti) >= 1)
    => /\ risultato.giorni_totali = Massimo(GiorniDi(risultato.dettagli_prodotti))
       /\ Len(risultato.dettagli_prodotti) >= 2
            => risultato.giorni_totali #
                 SommaCampo(risultato.dettagli_prodotti, "giorni_effettivi")

\* C3: dettagli_prodotti holds exactly the members that have a quantity, in
\* sequence order, each entry being the estimate of that product and
\* quantity alone.
C3_DettagliMembriRisolti ==
    (ESimula /\ risultato.tipo = "sequenza")
    => LET membri == MembriRisolti(chiamata.chiave)
           saltati == {i \in 1..Len(sequenze[chiamata.chiave]) :
                          sequenze[chiamata.chiave][i]
                              \notin DOMAIN quantita_produzione}
       IN  /\ Len(risultato.dettagli_prodotti)
                = Len(sequenze[chiamata.chiave]) - Cardinality(saltati)
           /\ Len(risultato.dettagli_prodotti) = Len(membri)
           /\ \A i \in 1..Len(membri) :
                 risultato.dettagli_prodotti[i]
                   = calcola_tempo_produzione(prodotti, membri[i],
                                              quantita_produzione[membri[i]])

\* A sequence report with the first member skipped and the second estimated.
C3_Witness ==
    /\ ESimula
    /\ risultato.tipo = "sequenza"
    /\ sequenze[chiamata.chiave][1] \notin DOMAIN quantita_produzione
    /\ sequenze[chiamata.chiave][2] \in DOMAIN quantita_produzione
    /\ Len(risultato.dettagli_prodotti) = 1
    /\ risultato.dettagli_prodotti[1].quantita > 0

\* C4: rapporto_produzione_completo always completes and returns a report
\* with one entry per configured sequence.
C4_RapportoNonFallisce ==
    ERapporto
    => /\ risultato.tipo = "rapporto"
       /\ DOMAIN risultato.sequenze = DOMAIN sequenze

\* C5: an estimate asked for an unknown key or for a product whose daily
\* capacity is zero or negative is reported as an error; no estimate record
\* is returned.
C5_ErroreDiConfigurazione ==
    (/\ EStima
     /\ \/ chiamata.chiave \notin DOMAIN prodotti
        \/ prodotti[chiamata.chiave].capacita_giornaliera <= 0)
    => risultato.tipo = "errore"

NessunMembroRisolto ==
    /\ ESimula
    /\ chiamata.chiave \in DOMAIN sequenze
    /\ MembriRisolti(chiamata.chiave) = <<>>

\* C6 as stated: for a sequence none of whose members has a quantity,
\* giorni_totali is 1, the member list is empty and the total hours are 0.
C6_GiorniTotaliUno ==
    NessunMembroRisolto
    => /\ risultato.tipo = "sequenza"
       /\ risultato.giorni_totali = 1
       /\ risultato.dettagli_prodotti = <<>>
       /\ risultato.tempo_totale_ore = 0

\* C6 amended: for a sequence none of whose members has a quantity,
\* giorni_totali is 0, the member list is empty and the total hours are 0.
C6_GiorniTotaliZero ==
    NessunMembroRisolto
    => /\ risultato.tipo = "sequenza"
       /\ risultato.giorni_totali = 0
       /\ risultato.dettagli_prodotti = <<>>
       /\ risultato.tempo_totale_ore = 0

\* A sequence simulated while another product has a quantity but none of its
\* own members has.
C6_Witness ==
    /\ NessunMembroRisolto
    /\ risultato.tipo = "sequenza"
    /\ DOMAIN quantita_produzione # {}

\* The sum of the quantity table, key by key.
TotaleTabella ==
    LET v(k) == IF k \in DOMAIN quantita_produzione
                THEN quantita_produzione[k] ELSE 0
    IN  v("carne_bovina") + v("carne_suina") + v("salumi") + v("formaggi")
        + v(ChiaveIgnota)

\* C7: quantita_totale_kg of the report is the sum of every quantity of the
\* table, the quantities of keys that are in no sequence included.
C7_QuantitaTotale ==
    (ERapporto /\ risultato.tipo = "rapporto")
    => risultato.totali_generali.quantita_totale_kg = TotaleTabella

\* A report made while a key of no sequence has a positive quantity and a
\* sequence member has none.
C7_Witness ==
    /\ ERapporto
    /\ risultato.tipo = "rapporto"
    /\ ChiaveIgnota \in DOMAIN quantita_produzione
    /\ quantita_produzione[ChiaveIgnota] > 0
    /\ "carne_suina" \notin DOMAIN quantita_produzione
    /\ risultato.totali_generali.quantita_totale_kg > quantita_produzione[ChiaveIgnota]

\* C8: tempo_totale_ore of a sequence report is the sum of the
\* tempo_lavorazione_ore of the entries of dettagli_prodotti.
C8_TempoTotaleSomma ==
    (ESimula /\ risultato.tipo = "sequenza")
    => risultato.tempo_totale_ore
         = SommaCampo(risultato.dettagli_prodotti, "tempo_lavorazione_ore")

\* A sequence report of two entries with different positive hours.
C8_Witness ==
    /\ ESimula
    /\ risultato.tipo = "sequenza"
    /\ Len(risultato.dettagli_prodotti) = 2
    /\ risultato.dettagli_prodotti[1].tempo_lavorazione_ore > 0
    /\ risultato.dettagli_prodotti[2].tempo_lavorazione_ore
         > risultato.dettagli_prodotti[1].tempo_lavorazione_ore

\* The hours the same product would be reported for twice the quantity.
OreDelDoppio ==
    calcola_tempo_produzione(prodotti, chiamata.chiave, 2 * chiamata.v1)
        .tempo_lavorazione_ore

\* C9 as stated: the reported tempo_lavorazione_ore for 2q is twice the
\* reported tempo_lavorazione_ore for q, whatever the per-unit time.
C9_OreLineari ==
    (EStima /\ risultato.tipo = "stima")
    => OreDelDoppio = 2 * risultato.tempo_lavorazione_ore

\* C9 amended: when the per-unit time is a whole number of hundredths of an
\* hour the reported hours for 2q are twice the reported hours for q; for
\* any per-unit time the two differ by at most one hundredth.
C9_OreLineariCentesimi ==
    (EStima /\ risultato.tipo = "stima")
    => /\ prodotti[chiamata.chiave].tempo_per_kg % 10 = 0
            => OreDelDoppio = 2 * risultato.tempo_lavorazione_ore
       /\ Abs(OreDelDoppio - 2 * risultato.tempo_lavorazione_ore) <= 1

\* An estimate with the configured per-unit time 0.18 and a positive quantity.
C9_Witness ==
    /\ EStima
    /\ risultato.tipo = "stima"
    /\ prodotti[chiamata.chiave].tempo_per_kg = 180
    /\ chiamata.v1 > 0
    /\ risultato.tempo_lavorazione_ore = 18 * chiamata.v1

EConfigura ==
    chiamata.op \in {"configura_tempo_produzione",
                     "configura_capacita_giornaliera"}

\* C10: the product configuration changes only by configura_tempo_produzione
\* or configura_capacita_giornaliera with an existing key, which replaces
\* exactly that field of that product; the next estimate uses the value; a
\* call with an unknown key, configura_capacita_complessiva and the three
\* computations leave products, sequences and quantity table unchanged.
C10_Cornice ==
    [][/\ sequenze' = sequenze
       /\ prodotti' # prodotti
            => /\ EConfigura'
               /\ chiamata'.chiave \in DOMAIN prodotti
       /\ (chiamata'.op = "configura_tempo_produzione"
              /\ chiamata'.chiave \in DOMAIN prodotti)
            => /\ prodotti' = [prodotti EXCEPT
                     ![chiamata'.chiave].tempo_per_kg = chiamata'.v1]
               /\ quantita_produzione' = quantita_produzione
       /\ (chiamata'.op = "configura_capacita_giornaliera"
              /\ chiamata'.chiave \in DOMAIN prodotti)
            => /\ prodotti' = [prodotti EXCEPT
                     ![chiamata'.chiave].capacita_giornaliera = chiamata'.v1]
               /\ quantita_produzione' = quantita_produzione
       /\ (\/ EConfigura' /\ chiamata'.chiave \notin DOMAIN prodotti
           \/ chiamata'.op \in {"configura_capacita_complessiva",
                                "calcola_tempo_produzione",
                                "simula_sequenza_produttiva",
                                "rapporto_produzione_completo"})
            => UNCHANGED <<prodotti, sequenze, quantita_produzione>>
       /\ (EStima' /\ risultato'.tipo = "stima")
            => /\ risultato'.tempo_lavorazione_ore
                    = RoundHalfEven(chiamata'.v1
                          * prodotti[chiamata'.chiave].tempo_per_kg, 10)
               /\ prodotti[chiamata'.chiave].capacita_giornaliera > 0
                    => risultato'.giorni_effettivi
                         * prodotti[chiamata'.chiave].capacita_giornaliera
                           >= chiamata'.v1
      ]_vars

\* An estimate made with a per-unit time and a capacity that were both
\* configured: 3 kg at 0.125 h/kg and 1 kg a day.
C10_Witness ==
    /\ EStima
    /\ risultato.tipo = "stima"
    /\ prodotti[chiamata.chiave].tempo_per_kg = 125
    /\ prodotti[chiamata.chiave].capacita_giornaliera = 1
    /\ chiamata.v1 = 3
    /\ risultato.tempo_lavorazione_ore = 38
    /\ risultato.giorni_effettivi = 3
====
